---------------------------- MODULE Spec2Model ----------------------------
(***************************************************************************)
(* A model of the gptoss2api gateway (src/openai.go): one inbound request  *)
(* handled by handleChatCompletions / handleModels, the two translators    *)
(* convertToCloudflareRequest and convertToOpenAIResponse, the backend     *)
(* client callCloudflareAPI and the per-character SSE emission.            *)
(*                                                                         *)
(* Texts that are split into characters are sequences of bytes (0..255);   *)
(* header values, keys, model names and error messages are strings.        *)
(* A Go pointer or an optional value is a sequence: <<>> is nil, <<v>> is  *)
(* a pointer to v.                                                         *)
(***************************************************************************)
EXTENDS Integers, Sequences, FiniteSets, TLC

\* Bounds of the model.
MaxText == 2
MaxMsgs == 2
MaxItems == 2
MaxContent == 1

Nil == <<>>

RECURSIVE Concat(_)
\* The concatenation of a sequence of byte strings (Go's string +).
Concat(ss) == IF ss = <<>> THEN <<>> ELSE Head(ss) \o Concat(Tail(ss))

SeqsUpTo(S, n) == UNION {[1..k -> S] : k \in 0..n}

(***************************************************************************)
(* UTF-8, as Go's string <-> []rune conversions compute it.                *)
(***************************************************************************)
IsCont(b) == b >= 128 /\ b <= 191

\* utf8.DecodeRuneInString at byte i of s: the rune and the bytes it takes;
\* an invalid or truncated encoding decodes as U+FFFD of width 1.
DecodeRuneAt(s, i) ==
    LET n == Len(s) - i + 1
        b0 == s[i]
        bad == [r |-> 65533, size |-> 1]
    IN  IF b0 < 128 THEN [r |-> b0, size |-> 1]
        ELSE IF b0 >= 194 /\ b0 <= 223 THEN
            IF n >= 2 /\ IsCont(s[i+1])
            THEN [r |-> (b0 - 192) * 64 + (s[i+1] - 128), size |-> 2]
            ELSE bad
        ELSE IF b0 >= 224 /\ b0 <= 239 THEN
            LET lo == IF b0 = 224 THEN 160 ELSE 128
                hi == IF b0 = 237 THEN 159 ELSE 191
            IN  IF n >= 3 /\ s[i+1] >= lo /\ s[i+1] <= hi /\ IsCont(s[i+2])
                THEN [r |-> (b0 - 224) * 4096 + (s[i+1] - 128) * 64
                              + (s[i+2] - 128),
                      size |-> 3]
                ELSE bad
        ELSE IF b0 >= 240 /\ b0 <= 244 THEN
            LET lo == IF b0 = 240 THEN 144 ELSE 128
                hi == IF b0 = 244 THEN 143 ELSE 191
            IN  IF n >= 4 /\ s[i+1] >= lo /\ s[i+1] <= hi
                   /\ IsCont(s[i+2]) /\ IsCont(s[i+3])
                THEN [r |-> (b0 - 240) * 262144 + (s[i+1] - 128) * 4096
                              + (s[i+2] - 128) * 64 + (s[i+3] - 128),
                      size |-> 4]
                ELSE bad
        ELSE bad

RECURSIVE RunesFrom(_, _)
RunesFrom(s, i) ==
    IF i > Len(s) THEN <<>>
    ELSE LET d == DecodeRuneAt(s, i)
         IN  <<d.r>> \o RunesFrom(s, i + d.size)

\* An emission that cuts the text at every byte instead of every character.
BytesAsRunes(s) == s

\* []rune(s): the characters (code points) of s, in order.
ToRunes(s) == RunesFrom(s, 1)

\* string(r): the UTF-8 encoding of one rune; a surrogate or an out-of-range
\* value encodes as U+FFFD.
RuneToString(r) ==
    IF r < 0 \/ r > 1114111 \/ (r >= 55296 /\ r <= 57343)
    THEN <<239, 191, 189>>
    ELSE IF r < 128 THEN <<r>>
    ELSE IF r < 2048 THEN <<192 + (r \div 64), 128 + (r % 64)>>
    ELSE IF r < 65536
    THEN <<224 + (r \div 4096), 128 + ((r \div 64) % 64), 128 + (r % 64)>>
    ELSE <<240 + (r \div 262144), 128 + ((r \div 4096) % 64),
           128 + ((r \div 64) % 64), 128 + (r % 64)>>

RECURSIVE EncodeRunes(_)
EncodeRunes(rs) ==
    IF rs = <<>> THEN <<>> ELSE RuneToString(Head(rs)) \o EncodeRunes(Tail(rs))

\* A JSON string as encoding/json reads or writes it: every byte that is not
\* part of a valid UTF-8 encoding becomes U+FFFD.
JSONText(s) == EncodeRunes(RunesFrom(s, 1))

\* Whether s is valid UTF-8 (utf8.ValidString).
ValidUTF8(s) == JSONText(s) = s

(***************************************************************************)
(* State.                                                                  *)
(***************************************************************************)
VARIABLES
    config,        \* the server configuration, set once at startup
    parked,        \* the requests in progress that are not running now
    cur,           \* the request whose handler the variables below hold
    req,           \* the inbound HTTP request r
    pc,            \* where the handler is
    connOpen,      \* whether the peer still holds the connection open;
                   \* once it is closed the request context is cancelled
    openaiReq,     \* handleChatCompletions: the decoded body
    cfReq,         \* handleChatCompletions: the backend request
    reqBody,       \* callCloudflareAPI: the serialized backend request
    backendCalls,  \* how many times client.Do has been called
    backendReply,  \* what client.Do came back with (pointer)
    cfResp,        \* handleChatCompletions: the backend result (pointer)
    rawCFJSON,     \* handleChatCompletions: the raw backend body
    err,           \* handleChatCompletions: the backend call's error
    openaiResp,    \* handleChatCompletions: the unified response (pointer)
    runes,         \* handleChatCompletions: the characters to stream
    i,             \* the index of the next character of the range loop
    status,        \* the HTTP status the handler set (0: none yet)
    contentType,   \* the Content-Type header the handler set
    written,       \* every chunk the handler passed to w.Write, in order
    buf,           \* chunks written and not yet flushed
    wire,          \* chunks that reached the peer
    closedAt,      \* Len(written) when the peer closed (-1: still open)
    logs           \* what log.Printf recorded

vars == <<config, parked, cur, req, pc, connOpen, openaiReq, cfReq, reqBody, backendCalls,
          backendReply, cfResp, rawCFJSON, err, openaiResp, runes, i, status, contentType,
          written, buf, wire, closedAt, logs>>

\* What is shared by all requests; no step of a handler writes it.
server == <<config, parked, cur>>

\* The handler's locals.
locals == <<openaiReq, cfReq, reqBody, backendCalls, backendReply, cfResp,
            rawCFJSON, err, openaiResp, runes, i>>
\* The response writer and the log.
writer == <<status, contentType, written, buf, wire, logs>>

(***************************************************************************)
(* Schema types and their zero values.                                     *)
(***************************************************************************)
\* Message.Content is an interface{}: a JSON string or a structured value.
StringContent(s) == [kind |-> "string", val |-> s]
StructContent(v) == [kind |-> "struct", val |-> v]

ZeroOpenAIRequest ==
    [Model |-> "", Messages |-> <<>>, Stream |-> FALSE,
     Temperature |-> Nil, TopP |-> Nil]

ZeroCloudflareRequest ==
    [Model |-> "", Input |-> <<>>, Temperature |-> Nil, TopP |-> Nil]

ZeroReqBody ==
    [keys |-> {}, model |-> "", input |-> <<>>, inputNull |-> FALSE,
     temperature |-> Nil, top_p |-> Nil]

(***************************************************************************)
(* Request translator.                                                     *)
(***************************************************************************)
RECURSIVE cfMessagesReversed(_)
\* A translation that builds the input list back to front.
cfMessagesReversed(msgs) ==
    IF msgs = <<>> THEN <<>>
    ELSE cfMessagesReversed(Tail(msgs))
         \o <<[role |-> Head(msgs).Role, content |-> Head(msgs).Content]>>

RECURSIVE cfMessages(_)
\* The range loop of convertToCloudflareRequest: one entry per message.
cfMessages(msgs) ==
    IF msgs = <<>> THEN <<>>
    ELSE <<[role |-> Head(msgs).Role, content |-> Head(msgs).Content]>>
         \o cfMessages(Tail(msgs))

\* A translation that lets a caller-supplied model through.
convertKeepingCallerModel(oreq) ==
    [Model |-> IF oreq.Model # "" THEN oreq.Model ELSE config.Model,
     Input |-> cfMessages(oreq.Messages),
     Temperature |-> IF oreq.Temperature # Nil THEN oreq.Temperature ELSE Nil,
     TopP |-> IF oreq.TopP # Nil THEN oreq.TopP ELSE Nil]

\* A translation that copies the sampling fields by value, a missing one as 0.
convertDefaultingToZero(oreq) ==
    [Model |-> config.Model,
     Input |-> cfMessages(oreq.Messages),
     Temperature |-> IF oreq.Temperature # Nil THEN oreq.Temperature ELSE <<0>>,
     TopP |-> IF oreq.TopP # Nil THEN oreq.TopP ELSE <<0>>]

convertToCloudflareRequest(oreq) ==
    [Model |-> config.Model,
     Input |-> cfMessages(oreq.Messages),
     Temperature |-> IF oreq.Temperature # Nil THEN oreq.Temperature ELSE Nil,
     TopP |-> IF oreq.TopP # Nil THEN oreq.TopP ELSE Nil]

\* json.Marshal of a CloudflareRequest: model and input always, temperature
\* and top_p (pointers tagged omitempty) only when not nil.  The input slice
\* is nil when no message was appended, and a nil slice serializes as null.
jsonMarshalRequest(creq) ==
    [keys |-> {"model", "input"}
                \cup (IF creq.Temperature # Nil THEN {"temperature"} ELSE {})
                \cup (IF creq.TopP # Nil THEN {"top_p"} ELSE {}),
     model |-> creq.Model,
     input |-> creq.Input,
     inputNull |-> (creq.Input = <<>>),
     temperature |-> creq.Temperature,
     top_p |-> creq.TopP]

(***************************************************************************)
(* Response translator.                                                    *)
(***************************************************************************)
ThinkOpen == <<60, 116, 104, 105, 110, 107, 62>>            \* "<think>"
ThinkClose == <<60, 47, 116, 104, 105, 110, 107, 62, 10>>   \* "</think>\n"

RECURSIVE lastText(_, _, _)
\* The inner range loops: the text of the last entry of the given type, or
\* acc when there is none.
lastText(content, type, acc) ==
    IF content = <<>> THEN acc
    ELSE lastText(Tail(content), type,
                  IF Head(content).Type = type THEN Head(content).Text ELSE acc)

RECURSIVE scanOutput(_, _)
\* The outer range loop over cloudflareResp.Output.
scanOutput(output, acc) ==
    IF output = <<>> THEN acc
    ELSE LET o == Head(output)
             rt == IF o.Type = "reasoning"
                   THEN lastText(o.Content, "reasoning_text", acc.reasoningText)
                   ELSE acc.reasoningText
             am == IF o.Type = "message" /\ o.Role = "assistant"
                   THEN lastText(o.Content, "output_text", acc.assistantMessage)
                   ELSE acc.assistantMessage
         IN  scanOutput(Tail(output),
                        [reasoningText |-> rt, assistantMessage |-> am])

\* An extraction in which the first qualifying item wins, not the last.
extractTextsOfFirstItems(cresp) ==
    scanOutput([j \in 1..Len(cresp.Output) |->
                    cresp.Output[Len(cresp.Output) + 1 - j]],
               [reasoningText |-> <<>>, assistantMessage |-> <<>>])

extractTexts(cresp) ==
    scanOutput(cresp.Output, [reasoningText |-> <<>>, assistantMessage |-> <<>>])

\* A composition that wraps the reasoning text even when it is empty.
composeAlwaysWrapping(t) ==
    ThinkOpen \o t.reasoningText \o ThinkClose \o t.assistantMessage

\* A composition that puts the answer before the reasoning block.
composeAnswerFirst(t) ==
    t.assistantMessage
    \o (IF t.reasoningText # <<>>
        THEN ThinkOpen \o t.reasoningText \o ThinkClose ELSE <<>>)

\* finalMessage of convertToOpenAIResponse.
composeFinalMessage(t) ==
    (IF t.reasoningText # <<>>
     THEN ThinkOpen \o t.reasoningText \o ThinkClose ELSE <<>>)
    \o t.assistantMessage

\* A translation that gives no choice when the result has no output item.
convertNoChoiceWhenEmpty(cresp) ==
    [ID |-> cresp.ID,
     Object |-> "chat.completion",
     Created |-> cresp.Created,
     Model |-> cresp.Model,
     Choices |-> IF cresp.Output = <<>> THEN <<>>
                 ELSE <<[Index |-> 0,
                         Message |-> [Role |-> "assistant",
                                      Content |-> StringContent(
                                          composeFinalMessage(extractTexts(cresp)))],
                         FinishReason |-> "stop"]>>,
     Usage |-> [PromptTokens |-> cresp.Usage.PromptTokens,
                CompletionTokens |-> cresp.Usage.CompletionTokens,
                TotalTokens |-> cresp.Usage.TotalTokens]]

convertToOpenAIResponse(cresp) ==
    [ID |-> cresp.ID,
     Object |-> "chat.completion",
     Created |-> cresp.Created,
     Model |-> cresp.Model,
     Choices |-> <<[Index |-> 0,
                    Message |-> [Role |-> "assistant",
                                 Content |-> StringContent(
                                     composeFinalMessage(extractTexts(cresp)))],
                    FinishReason |-> "stop"]>>,
     Usage |-> [PromptTokens |-> cresp.Usage.PromptTokens,
                CompletionTokens |-> cresp.Usage.CompletionTokens,
                TotalTokens |-> cresp.Usage.TotalTokens]]

(***************************************************************************)
(* Backend client.                                                         *)
(***************************************************************************)
\* json.Unmarshal of a backend body into a CloudflareResponse: the document's
\* shape is kept and every text is read as a JSON string.
unmarshalCloudflareResponse(doc) ==
    [doc EXCEPT !.Output =
        [j \in DOMAIN doc.Output |->
            [doc.Output[j] EXCEPT !.Content =
                [k \in DOMAIN doc.Output[j].Content |->
                    [Type |-> doc.Output[j].Content[k].Type,
                     Text |-> JSONText(doc.Output[j].Content[k].Text)]]]]]

\* A client that reports a non-success status without the body text.
callDroppingErrorBody(reply) ==
    IF reply.doErr # Nil
    THEN [resp |-> Nil, raw |-> "", err |-> reply.doErr]
    ELSE IF reply.StatusCode # 200
    THEN [resp |-> Nil, raw |-> reply.Body.text,
          err |-> <<"API request failed">>]
    ELSE IF reply.Body.doc = Nil
    THEN [resp |-> Nil, raw |-> reply.Body.text, err |-> <<reply.Body.jsonErr>>]
    ELSE [resp |-> <<unmarshalCloudflareResponse(reply.Body.doc[1])>>,
          raw |-> reply.Body.text, err |-> Nil]

\* A client that returns no raw text when the body does not decode.
callDiscardingUndecodedBody(reply) ==
    IF reply.doErr # Nil
    THEN [resp |-> Nil, raw |-> "", err |-> reply.doErr]
    ELSE IF reply.StatusCode # 200
    THEN [resp |-> Nil, raw |-> reply.Body.text,
          err |-> <<"API request failed: " \o reply.Body.text>>]
    ELSE IF reply.Body.doc = Nil
    THEN [resp |-> Nil, raw |-> "", err |-> <<reply.Body.jsonErr>>]
    ELSE [resp |-> <<unmarshalCloudflareResponse(reply.Body.doc[1])>>,
          raw |-> reply.Body.text, err |-> Nil]

\* callCloudflareAPI from client.Do's outcome on: (result, raw body, error).
callCloudflareAPI(reply) ==
    IF reply.doErr # Nil
    THEN [resp |-> Nil, raw |-> "", err |-> reply.doErr]
    ELSE IF reply.StatusCode # 200
    THEN [resp |-> Nil, raw |-> reply.Body.text,
          err |-> <<"API request failed: " \o reply.Body.text>>]
    ELSE IF reply.Body.doc = Nil
    THEN [resp |-> Nil, raw |-> reply.Body.text, err |-> <<reply.Body.jsonErr>>]
    ELSE [resp |-> <<unmarshalCloudflareResponse(reply.Body.doc[1])>>,
          raw |-> reply.Body.text, err |-> Nil]

(***************************************************************************)
(* Authorization and the request body.                                     *)
(***************************************************************************)
\* An authorization that accepts any header carrying the key.
authorizeAnyScheme(rq) ==
    \/ config.ClientKey = ""
    \/ rq.auth \in {"Bearer " \o config.ClientKey, config.ClientKey}

authorizeClient(rq) ==
    IF config.ClientKey = "" THEN TRUE
    ELSE rq.auth = "Bearer " \o config.ClientKey

\* A decoding that reads any body it cannot parse as the zero request.
jsonUnmarshalLenient(body) ==
    IF body.kind = "json" THEN [err |-> FALSE, value |-> body.value]
    ELSE [err |-> FALSE, value |-> ZeroOpenAIRequest]

\* json.Unmarshal of the inbound body: an empty or malformed body is an error.
jsonUnmarshalRequest(body) ==
    IF body.kind = "json" THEN [err |-> FALSE, value |-> body.value]
    ELSE [err |-> TRUE, value |-> ZeroOpenAIRequest]

(***************************************************************************)
(* What the handler writes.                                                *)
(***************************************************************************)
\* The body http.Error writes: the message and a newline.
TextChunk(msg) == [kind |-> "text", text |-> msg \o "\n"]

\* One "data: <json>" frame; delta.role, delta.content, finish_reason and
\* usage are optional (<<>>: absent or null).
DataFrame(id, model, role, content, finish, usage) ==
    [kind |-> "data",
     event |-> [id |-> id, object |-> "chat.completion.chunk", model |-> model,
                delta |-> [role |-> role, content |-> content],
                index |-> 0, finish_reason |-> finish, usage |-> usage]]

startEvent(resp) == DataFrame(resp.ID, resp.Model, <<"assistant">>, Nil, Nil, Nil)

contentEvent(resp, r) ==
    DataFrame(resp.ID, resp.Model, Nil, <<JSONText(RuneToString(r))>>, Nil, Nil)

\* An end frame without the usage block.
endEventWithoutUsage(resp) ==
    DataFrame(resp.ID, resp.Model, Nil, Nil, <<"stop">>, Nil)

endEvent(resp) ==
    DataFrame(resp.ID, resp.Model, Nil, Nil, <<"stop">>,
              <<[prompt_tokens |-> resp.Usage.PromptTokens,
                 completion_tokens |-> resp.Usage.CompletionTokens,
                 total_tokens |-> resp.Usage.TotalTokens]>>)

DoneChunk == [kind |-> "done"]

\* The non-streaming body: the unified response, its content as JSON text.
CompletionChunk(resp) ==
    [kind |-> "completion",
     resp |-> [resp EXCEPT !.Choices[1].Message.Content.val = JSONText(@)]]

ModelsChunk == [kind |-> "models", object |-> "list", id |-> config.Model,
                owned_by |-> "openai"]

\* fullContent of the streaming branch.
fullContent(resp) == resp.Choices[1].Message.Content.val

\* What reaches the peer when the chunks are flushed.
Deliver(chunks) == IF connOpen THEN wire \o chunks ELSE wire

\* The handler writes one body with a status and returns; the server flushes.
ReplyAndReturn(code, ctype, chunk) ==
    /\ status' = code
    /\ contentType' = ctype
    /\ written' = Append(written, chunk)
    /\ buf' = <<>>
    /\ wire' = Deliver(buf \o <<chunk>>)
    /\ pc' = "done"

httpError(msg, code) ==
    ReplyAndReturn(code, "text/plain; charset=utf-8", TextChunk(msg))

\* w.Write of one frame followed by Flush.
WriteAndFlush(chunks) ==
    /\ written' = written \o chunks
    /\ buf' = <<>>
    /\ wire' = Deliver(buf \o chunks)

(***************************************************************************)
(* Inputs.                                                                 *)
(***************************************************************************)
DefaultModel == "@cf/openai/gpt-oss-120b"

Configs == [ClientKey : {"", "secret"}, Model : {DefaultModel}]

AuthHeaders == {"", "Bearer secret", "Bearer wrong", "secret"}

UserHi == [Role |-> "user", Content |-> StringContent(<<104, 105>>)]

\* The bodies the handler is run on: none, a malformed one, "{}", and a
\* one-message request with and without stream.
HandlerBodies ==
    {[kind |-> "empty", value |-> ZeroOpenAIRequest],
     [kind |-> "malformed", value |-> ZeroOpenAIRequest],
     [kind |-> "json", value |-> ZeroOpenAIRequest]}
    \cup {[kind |-> "json",
           value |-> [Model |-> "gpt-4", Messages |-> <<UserHi>>, Stream |-> s,
                      Temperature |-> Nil, TopP |-> Nil]] : s \in BOOLEAN}

Methods == {"GET", "POST", "DELETE"}

Requests ==
    {[path |-> "/v1/chat/completions", method |-> m, auth |-> a, body |-> b] :
        m \in Methods, a \in AuthHeaders, b \in HandlerBodies}
    \cup {[path |-> "/v1/models", method |-> m, auth |-> a,
           body |-> [kind |-> "empty", value |-> ZeroOpenAIRequest]] :
        m \in Methods, a \in AuthHeaders}

Usage358 == [PromptTokens |-> 3, CompletionTokens |-> 5, TotalTokens |-> 8]

BackendDoc(output) ==
    [ID |-> "resp_1", Created |-> 1700000000, Model |-> DefaultModel,
     Object |-> "response", Output |-> output, Usage |-> Usage358]

ReasoningItem(t) ==
    [ID |-> "rs_1", Content |-> <<[Text |-> t, Type |-> "reasoning_text"]>>,
     Role |-> "", Type |-> "reasoning", Status |-> ""]

MessageItem(t) ==
    [ID |-> "msg_1", Content |-> <<[Text |-> t, Type |-> "output_text"]>>,
     Role |-> "assistant", Type |-> "message", Status |-> "completed"]

\* Raw backend texts: ASCII "a", the two bytes of U+00E9, alone (invalid) or
\* together; and one four-byte character.
RawTexts == SeqsUpTo({97, 195, 169}, MaxText)
Emoji == <<240, 159, 152, 128>>

HandlerOutputs ==
    {<<>>}
    \cup {<<MessageItem(t)>> : t \in RawTexts}
    \cup {<<ReasoningItem(Emoji), MessageItem(t)>> : t \in RawTexts}

TransportFailure ==
    [doErr |-> <<"dial tcp: connection refused">>, StatusCode |-> 0,
     Body |-> [text |-> "", doc |-> Nil, jsonErr |-> ""]]

ErrorBodies == {"{\"error\":\"rate limited\"}", ""}

\* What client.Do and io.ReadAll come back with once the request context is
\* cancelled: the context's error, or a body cut short (ReadAll's error is
\* dropped at line 313), which does not decode.
CancelledReplies ==
    {[doErr |-> <<"context canceled">>, StatusCode |-> 0,
      Body |-> [text |-> "", doc |-> Nil, jsonErr |-> ""]],
     [doErr |-> Nil, StatusCode |-> 200,
      Body |-> [text |-> "{\"id\":\"resp_1\",\"outp", doc |-> Nil,
                jsonErr |-> "unexpected end of JSON input"]]}

BackendReplies ==
    {TransportFailure}
    \cup {[doErr |-> Nil, StatusCode |-> c,
           Body |-> [text |-> b, doc |-> Nil, jsonErr |-> ""]] :
            c \in {429, 500}, b \in ErrorBodies}
    \cup {[doErr |-> Nil, StatusCode |-> 200,
           Body |-> [text |-> "<html>", doc |-> Nil,
                     jsonErr |-> "invalid character '<' looking for beginning of value"]]}
    \cup {[doErr |-> Nil, StatusCode |-> 200,
           Body |-> [text |-> "response.json", doc |-> <<BackendDoc(o)>>,
                     jsonErr |-> ""]] : o \in HandlerOutputs}

(***************************************************************************)
(* The handlers, for one request.                                          *)
(***************************************************************************)
\* One request, and none waiting.
Alone ==
    /\ cur = 1
    /\ parked = <<>>

IdleLocals ==
    /\ openaiReq = ZeroOpenAIRequest
    /\ cfReq = ZeroCloudflareRequest
    /\ reqBody = ZeroReqBody
    /\ backendCalls = 0
    /\ backendReply = Nil
    /\ cfResp = Nil
    /\ rawCFJSON = ""
    /\ err = Nil
    /\ openaiResp = Nil
    /\ runes = <<>>
    /\ i = 0

IdleWriter ==
    /\ status = 0
    /\ contentType = ""
    /\ written = <<>>
    /\ buf = <<>>
    /\ wire = <<>>
    /\ logs = <<>>

Init ==
    /\ config \in Configs
    /\ Alone
    /\ req \in Requests
    /\ pc = "recv"
    /\ connOpen = TRUE
    /\ closedAt = -1
    /\ IdleLocals
    /\ IdleWriter

\* An entry that keeps the caller's model in the server configuration.
ChatEnterStoringModel ==
    /\ pc = "recv"
    /\ req.path = "/v1/chat/completions"
    /\ IF ~authorizeClient(req)
       THEN /\ httpError("Unauthorized", 401)
            /\ UNCHANGED <<config, locals, logs>>
       ELSE IF req.method # "POST"
       THEN /\ httpError("Method not allowed", 405)
            /\ UNCHANGED <<config, locals, logs>>
       ELSE LET u == jsonUnmarshalRequest(req.body)
                logged == Append(logs, [kind |-> "request", text |-> req.body.kind])
            IN  IF u.err
                THEN /\ httpError("Invalid JSON", 400)
                     /\ logs' = logged
                     /\ UNCHANGED <<config, locals>>
                ELSE /\ openaiReq' = u.value
                     /\ config' = [config EXCEPT !.Model = u.value.Model]
                     /\ cfReq' = convertToCloudflareRequest(u.value)
                     /\ reqBody' = jsonMarshalRequest(convertToCloudflareRequest(u.value))
                     /\ backendCalls' = backendCalls + 1
                     /\ pc' = "call"
                     /\ logs' = logged
                     /\ UNCHANGED <<backendReply, cfResp, rawCFJSON, err, openaiResp,
                                    runes, i, status, contentType, written, buf, wire>>
    /\ UNCHANGED <<parked, cur, req, connOpen, closedAt>>

\* handleChatCompletions up to the call of client.Do (lines 120-142, 298-307).
ChatEnter ==
    /\ pc = "recv"
    /\ req.path = "/v1/chat/completions"
    /\ IF ~authorizeClient(req)
       THEN /\ httpError("Unauthorized", 401)
            /\ UNCHANGED <<locals, logs>>
       ELSE IF req.method # "POST"
       THEN /\ httpError("Method not allowed", 405)
            /\ UNCHANGED <<locals, logs>>
       ELSE LET u == jsonUnmarshalRequest(req.body)
                logged == Append(logs, [kind |-> "request", text |-> req.body.kind])
            IN  IF u.err
                THEN /\ httpError("Invalid JSON", 400)
                     /\ logs' = logged
                     /\ UNCHANGED locals
                ELSE /\ openaiReq' = u.value
                     /\ cfReq' = convertToCloudflareRequest(u.value)
                     /\ reqBody' = jsonMarshalRequest(convertToCloudflareRequest(u.value))
                     /\ backendCalls' = backendCalls + 1
                     /\ pc' = "call"
                     /\ logs' = logged
                     /\ UNCHANGED <<backendReply, cfResp, rawCFJSON, err, openaiResp,
                                    runes, i, status, contentType, written, buf, wire>>
    /\ UNCHANGED <<server, req, connOpen, closedAt>>

\* client.Do returns; the handler runs on to the 500, to the JSON completion,
\* or to the flushed start frame (lines 307-324, 143-184, 239-245).
BackendReturn(replies) ==
    /\ pc = "call"
    /\ \E reply \in (IF connOpen THEN replies ELSE CancelledReplies) :
        LET res == callCloudflareAPI(reply)
        IN  /\ backendReply' = <<reply>>
            /\ cfResp' = res.resp
            /\ rawCFJSON' = res.raw
            /\ err' = res.err
            /\ IF res.err # Nil
               THEN /\ httpError("Cloudflare API error: " \o res.err[1], 500)
                    /\ UNCHANGED <<openaiResp, runes, i, logs>>
               ELSE LET resp == convertToOpenAIResponse(res.resp[1])
                    IN  /\ logs' = Append(logs, [kind |-> "cloudflare", text |-> res.raw])
                        /\ openaiResp' = <<resp>>
                        /\ IF openaiReq.Stream
                           THEN /\ runes' = ToRunes(fullContent(resp))
                                /\ i' = 1
                                /\ status' = 200
                                /\ contentType' = "text/event-stream"
                                /\ WriteAndFlush(<<startEvent(resp)>>)
                                /\ pc' = "stream"
                           ELSE /\ ReplyAndReturn(200, "application/json",
                                                  CompletionChunk(resp))
                                /\ UNCHANGED <<runes, i>>
    /\ UNCHANGED <<server, req, connOpen, closedAt, openaiReq, cfReq, reqBody,
                   backendCalls>>

ChatBackendReturn == BackendReturn(BackendReplies)

\* An iteration that writes its frame and leaves it in the buffer.
ChatContentFrameUnflushed ==
    /\ pc = "stream"
    /\ i <= Len(runes)
    /\ written' = Append(written, contentEvent(openaiResp[1], runes[i]))
    /\ buf' = Append(buf, contentEvent(openaiResp[1], runes[i]))
    /\ wire' = wire
    /\ i' = i + 1
    /\ UNCHANGED <<server, req, pc, connOpen, closedAt, openaiReq, cfReq, reqBody,
                   backendCalls, backendReply, cfResp, rawCFJSON, err, openaiResp, runes,
                   status, contentType, logs>>

\* One iteration of the range loop: one frame written and flushed (187-209).
ChatContentFrame ==
    /\ pc = "stream"
    /\ i <= Len(runes)
    /\ WriteAndFlush(<<contentEvent(openaiResp[1], runes[i])>>)
    /\ i' = i + 1
    /\ UNCHANGED <<server, req, pc, connOpen, closedAt, openaiReq, cfReq, reqBody,
                   backendCalls, backendReply, cfResp, rawCFJSON, err, openaiResp, runes,
                   status, contentType, logs>>

\* An ending that writes the sentinel before the end frame.
ChatEndFramesSentinelFirst ==
    /\ pc = "stream"
    /\ i > Len(runes)
    /\ WriteAndFlush(<<DoneChunk, endEvent(openaiResp[1])>>)
    /\ pc' = "done"
    /\ UNCHANGED <<server, req, connOpen, closedAt, locals, status, contentType,
                   logs>>

\* After the loop: the end frame, the sentinel, one flush, return (211-238).
ChatEndFrames ==
    /\ pc = "stream"
    /\ i > Len(runes)
    /\ WriteAndFlush(<<endEvent(openaiResp[1]), DoneChunk>>)
    /\ pc' = "done"
    /\ UNCHANGED <<server, req, connOpen, closedAt, locals, status, contentType,
                   logs>>

\* A model listing that answers every method.
handleModelsAnyMethod ==
    /\ pc = "recv"
    /\ req.path = "/v1/models"
    /\ IF ~authorizeClient(req)
       THEN httpError("Unauthorized", 401)
       ELSE ReplyAndReturn(200, "application/json", ModelsChunk)
    /\ UNCHANGED <<server, req, connOpen, closedAt, locals, logs>>

\* handleModels (lines 248-271).
handleModels ==
    /\ pc = "recv"
    /\ req.path = "/v1/models"
    /\ IF ~authorizeClient(req)
       THEN httpError("Unauthorized", 401)
       ELSE IF req.method # "GET"
       THEN httpError("Method not allowed", 405)
       ELSE ReplyAndReturn(200, "application/json", ModelsChunk)
    /\ UNCHANGED <<server, req, connOpen, closedAt, locals, logs>>

\* The peer closes the connection; later writes and flushes reach nobody.
PeerClose ==
    /\ connOpen
    /\ pc # "done"
    /\ connOpen' = FALSE
    /\ closedAt' = Len(written)
    /\ UNCHANGED <<server, req, pc, locals, writer>>

handleChatCompletions ==
    \/ ChatEnter
    \/ ChatBackendReturn
    \/ ChatContentFrame
    \/ ChatEndFrames

Next ==
    \/ handleChatCompletions
    \/ handleModels
    \/ PeerClose

Spec == Init /\ [][Next]_vars

(***************************************************************************)
(* The request translator on its own: SpecReq draws an inbound request,    *)
(* translates it and serializes the backend request.                       *)
(***************************************************************************)
NoRequest ==
    [path |-> "", method |-> "", auth |-> "",
     body |-> [kind |-> "empty", value |-> ZeroOpenAIRequest]]

TranslatorConfigs ==
    [ClientKey : {""}, Model : {DefaultModel, "@cf/meta/llama-3-8b-instruct"}]

\* Messages with string content (one of them empty) and structured content.
SampleMessages ==
    {[Role |-> "system", Content |-> StringContent(<<97>>)],
     [Role |-> "user", Content |-> StringContent(<<>>)],
     [Role |-> "user", Content |-> StructContent(<<1, 2>>)],
     [Role |-> "assistant", Content |-> StringContent(<<98>>)]}

SampleFloats == {Nil, <<0>>, <<1>>}

InboundRequests ==
    [Model : {"", "gpt-4", DefaultModel},
     Messages : SeqsUpTo(SampleMessages, MaxMsgs),
     Stream : BOOLEAN,
     Temperature : SampleFloats,
     TopP : SampleFloats]

InitReq ==
    /\ config \in TranslatorConfigs
    /\ Alone
    /\ req = NoRequest
    /\ pc = "req_in"
    /\ connOpen = TRUE
    /\ closedAt = -1
    /\ openaiReq \in InboundRequests
    /\ cfReq = ZeroCloudflareRequest
    /\ reqBody = ZeroReqBody
    /\ backendCalls = 0
    /\ backendReply = Nil
    /\ cfResp = Nil
    /\ rawCFJSON = ""
    /\ err = Nil
    /\ openaiResp = Nil
    /\ runes = <<>>
    /\ i = 0
    /\ IdleWriter

\* cfReq := convertToCloudflareRequest(openaiReq) (line 139).
TranslateRequest ==
    /\ pc = "req_in"
    /\ cfReq' = convertToCloudflareRequest(openaiReq)
    /\ pc' = "req_built"
    /\ UNCHANGED <<server, req, connOpen, closedAt, openaiReq, reqBody,
                   backendCalls, backendReply, cfResp, rawCFJSON, err,
                   openaiResp, runes, i, writer>>

\* reqBody, _ := json.Marshal(req) (line 299).
MarshalRequest ==
    /\ pc = "req_built"
    /\ reqBody' = jsonMarshalRequest(cfReq)
    /\ pc' = "req_sent"
    /\ UNCHANGED <<server, req, connOpen, closedAt, openaiReq, cfReq,
                   backendCalls, backendReply, cfResp, rawCFJSON, err,
                   openaiResp, runes, i, writer>>

NextReq ==
    \/ TranslateRequest
    \/ MarshalRequest

SpecReq == InitReq /\ [][NextReq]_vars

(***************************************************************************)
(* The response translator on its own: SpecResp draws a backend result     *)
(* and translates it.                                                      *)
(***************************************************************************)
\* The type and role of an output item: the two kinds that contribute text,
\* and two that do not: a message of another role, an item of another type.
ReadKinds ==
    {[Type |-> "reasoning", Role |-> ""],
     [Type |-> "message", Role |-> "assistant"]}

SkippedKinds ==
    {[Type |-> "message", Role |-> "user"],
     [Type |-> "function_call", Role |-> ""]}

\* The type of a content entry, and whether its text is empty.  An entry of
\* the one type inside an item of the other kind is an entry of a type that
\* item does not read.
EntryShapes ==
    {[Type |-> "reasoning_text", empty |-> FALSE],
     [Type |-> "reasoning_text", empty |-> TRUE],
     [Type |-> "output_text", empty |-> FALSE],
     [Type |-> "output_text", empty |-> TRUE]}

TextEntryShapes == {sh \in EntryShapes : ~sh.empty}

\* The translator copies texts and tests them only for emptiness, so a
\* non-empty text is a one-letter label of its place: entry k of item j.
TextAt(j, k) == <<96 + MaxContent * (j - 1) + k>>

\* Items of the kinds that contribute carry any entries; the others carry
\* entries with text, of both types.
ItemShapes ==
    [kind : ReadKinds, content : SeqsUpTo(EntryShapes, MaxContent)]
    \cup [kind : SkippedKinds, content : SeqsUpTo(TextEntryShapes, MaxContent)]

OutputItemOf(sh, j) ==
    [ID |-> "item", Role |-> sh.kind.Role, Type |-> sh.kind.Type, Status |-> "",
     Content |-> [k \in DOMAIN sh.content |->
                    [Type |-> sh.content[k].Type,
                     Text |-> IF sh.content[k].empty THEN <<>> ELSE TextAt(j, k)]]]

\* The outputs of at most n items.
BackendOutputs(n) ==
    {[j \in DOMAIN shs |-> OutputItemOf(shs[j], j)] :
        shs \in SeqsUpTo(ItemShapes, n)}

InitResp ==
    /\ config \in [ClientKey : {""}, Model : {DefaultModel}]
    /\ Alone
    /\ req = NoRequest
    /\ pc = "resp_in"
    /\ connOpen = TRUE
    /\ closedAt = -1
    /\ openaiReq = ZeroOpenAIRequest
    /\ cfReq = ZeroCloudflareRequest
    /\ reqBody = ZeroReqBody
    /\ backendCalls = 0
    /\ backendReply = Nil
    /\ \E o \in BackendOutputs(MaxItems) : cfResp = <<BackendDoc(o)>>
    /\ rawCFJSON = ""
    /\ err = Nil
    /\ openaiResp = Nil
    /\ runes = <<>>
    /\ i = 0
    /\ IdleWriter

\* openaiResp := convertToOpenAIResponse(cfResp) (line 151).
ConvertResponse ==
    /\ pc = "resp_in"
    /\ openaiResp' = <<convertToOpenAIResponse(cfResp[1])>>
    /\ pc' = "resp_done"
    /\ UNCHANGED <<server, req, connOpen, closedAt, openaiReq, cfReq, reqBody,
                   backendCalls, backendReply, cfResp, rawCFJSON, err, runes, i,
                   writer>>

NextResp == ConvertResponse

SpecResp == InitResp /\ [][NextResp]_vars

(***************************************************************************)
(* Properties.                                                             *)
(***************************************************************************)
\* What a consumer can tell about a chunk from its payload.
IsStartFrame(c) ==
    /\ c.kind = "data"
    /\ c.event.delta.role # Nil
    /\ c.event.delta.content = Nil
    /\ c.event.finish_reason = Nil

IsContentFrame(c) ==
    /\ c.kind = "data"
    /\ c.event.delta.role = Nil
    /\ c.event.delta.content # Nil
    /\ c.event.finish_reason = Nil

IsEndFrame(c) ==
    /\ c.kind = "data"
    /\ c.event.delta.role = Nil
    /\ c.event.delta.content = Nil
    /\ c.event.finish_reason = <<"stop">>

IsSentinel(c) == c.kind = "done"

\* The handler took the streaming branch.
Streaming == contentType = "text/event-stream"

\* The final composed text of the request, and its characters.
FinalText == fullContent(openaiResp[1])
FinalChars == RunesFrom(FinalText, 1)

\* The content deltas of the content-phase frames written so far, in order.
ContentDeltas ==
    LET idx == {k \in DOMAIN written : IsContentFrame(written[k])}
        f[n \in 0..Len(written)] ==
            IF n = 0 THEN <<>>
            ELSE IF n \in idx
                 THEN Append(f[n - 1], written[n].event.delta.content[1])
                 ELSE f[n - 1]
    IN  f[Len(written)]

\* C1: a streaming emission that has run to completion has written exactly
\* one start frame, then one content frame per character of the final text
\* (none for the empty text), then one end frame, then one [DONE] sentinel,
\* and nothing else; while it runs, what it has written is the start frame
\* followed by content frames only; and all of it reaches a peer that stays
\* connected.
C1_FrameSequence ==
    Streaming =>
        LET n == Len(FinalChars)
        IN  /\ pc \in {"stream", "done"}
            /\ Len(written) >= 1
            /\ IsStartFrame(written[1])
            /\ pc = "stream" =>
                /\ Len(written) = i
                /\ i <= n + 1
                /\ \A k \in 2..Len(written) : IsContentFrame(written[k])
            /\ pc = "done" =>
                /\ Len(written) = n + 3
                /\ \A k \in 2..(n + 1) : IsContentFrame(written[k])
                /\ IsEndFrame(written[n + 2])
                /\ IsSentinel(written[n + 3])
            /\ connOpen => wire = written

\* A completed emission of a text of at least two characters.
C1_Witness ==
    /\ Streaming
    /\ pc = "done"
    /\ Len(FinalChars) >= 2
    /\ Len(written) = Len(FinalChars) + 3

\* C2: every content frame carries exactly one whole character, the k-th
\* frame the k-th character of the final text, and once the emission is
\* complete the deltas concatenated in order are the final text.
C2_WholeCharacters ==
    Streaming =>
        LET ds == ContentDeltas
            chars == FinalChars
        IN  /\ Len(ds) <= Len(chars)
            /\ \A k \in DOMAIN ds :
                /\ ValidUTF8(ds[k])
                /\ RunesFrom(ds[k], 1) = <<chars[k]>>
            /\ pc = "done" => Concat(ds) = FinalText

\* A completed emission of a text that holds a multi-byte character.
C2_Witness ==
    /\ Streaming
    /\ pc = "done"
    /\ Len(FinalChars) >= 2
    /\ \E k \in DOMAIN FinalText : FinalText[k] >= 128
    /\ Concat(ContentDeltas) = FinalText

\* C3: once the peer has closed the transport during a streaming emission
\* (after the start frame), the emitter produces and writes no further
\* frame.
C3_StopsOnClose ==
    (Streaming /\ ~connOpen /\ closedAt >= 1) => Len(written) = closedAt

\* The request is not authorized: a key is configured and the Authorization
\* header is not exactly "Bearer <key>".
BadAuthorization ==
    /\ config.ClientKey # ""
    /\ req.auth # "Bearer " \o config.ClientKey

\* C4: with a client key configured, a request to either endpoint whose
\* Authorization header is missing or not exactly "Bearer <key>" is answered
\* 401 and the backend is never called for it; with no key configured no
\* request is answered 401.
C4_Authorization ==
    /\ BadAuthorization =>
        /\ backendCalls = 0
        /\ pc \in {"recv", "done"}
        /\ pc = "done" =>
            /\ status = 401
            /\ written = <<TextChunk("Unauthorized")>>
    /\ config.ClientKey = "" => status # 401

\* A request with a wrong key, answered 401.
C4_Witness ==
    /\ config.ClientKey = "secret"
    /\ req.auth = "Bearer wrong"
    /\ req.method = "POST"
    /\ req.body.kind = "json"
    /\ pc = "done"
    /\ status = 401

\* The three kinds of backend failure, read off what client.Do came back with.
TransportFailed == backendReply # Nil /\ backendReply[1].doErr # Nil
NonSuccessStatus ==
    /\ backendReply # Nil
    /\ backendReply[1].doErr = Nil
    /\ backendReply[1].StatusCode # 200
UndecodableBody ==
    /\ backendReply # Nil
    /\ backendReply[1].doErr = Nil
    /\ backendReply[1].StatusCode = 200
    /\ backendReply[1].Body.doc = Nil

\* C5: after a transport failure, a non-success status or an undecodable
\* success body the handler has answered 500 with exactly one message, which
\* carries the failure's detail (for a non-success status the backend's body
\* text); the backend was called once; no completion and no frame is written.
C5_BackendFailure ==
    (TransportFailed \/ NonSuccessStatus \/ UndecodableBody) =>
        /\ pc = "done"
        /\ status = 500
        /\ backendCalls = 1
        /\ Len(written) = 1
        /\ written[1].kind = "text"
        /\ TransportFailed =>
            written[1].text = "Cloudflare API error: "
                                \o backendReply[1].doErr[1] \o "\n"
        /\ NonSuccessStatus =>
            written[1].text = "Cloudflare API error: API request failed: "
                                \o backendReply[1].Body.text \o "\n"
        /\ UndecodableBody =>
            written[1].text = "Cloudflare API error: "
                                \o backendReply[1].Body.jsonErr \o "\n"

\* A non-success status with a body, answered 500.
C5_Witness ==
    /\ NonSuccessStatus
    /\ backendReply[1].Body.text = "{\"error\":\"rate limited\"}"
    /\ status = 500

(***************************************************************************)
(* Properties of the response translator (SpecResp).                       *)
(***************************************************************************)
Output == cfResp[1].Output

ReasoningItems == {j \in DOMAIN Output : Output[j].Type = "reasoning"}

AssistantItems ==
    {j \in DOMAIN Output :
        Output[j].Type = "message" /\ Output[j].Role = "assistant"}

\* The places <<item, entry>> of the entries of the given type in the given
\* items, and the last of a set of places in output order.
EntriesOf(items, type) ==
    {p \in items \X (1..MaxContent) :
        /\ p[2] \in DOMAIN Output[p[1]].Content
        /\ Output[p[1]].Content[p[2]].Type = type}

LastPlace(S) ==
    CHOOSE p \in S :
        \A q \in S : q[1] < p[1] \/ (q[1] = p[1] /\ q[2] <= p[2])

TextOfLast(S) ==
    IF S = {} THEN <<>> ELSE Output[LastPlace(S)[1]].Content[LastPlace(S)[2]].Text

\* The reasoning text and the assistant text of the backend result; where
\* several entries qualify, the last one in output order.
TheReasoningText == TextOfLast(EntriesOf(ReasoningItems, "reasoning_text"))
TheAssistantText == TextOfLast(EntriesOf(AssistantItems, "output_text"))

\* "<think>" r "</think>" and a newline.
Delimited(r) ==
    <<60, 116, 104, 105, 110, 107, 62>> \o r
        \o <<60, 47, 116, 104, 105, 110, 107, 62>> \o <<10>>

\* The content the translator composed.
Composed == openaiResp[1].Choices[1].Message.Content.val

\* C6 as stated: whenever the result holds a reasoning item and an
\* assistant message item, the content is the delimited reasoning text, a
\* newline and the assistant text.
C6_AlwaysDelimited ==
    (pc = "resp_done" /\ ReasoningItems # {} /\ AssistantItems # {}) =>
        Composed = Delimited(TheReasoningText) \o TheAssistantText

\* C6, amended: when the result holds a reasoning item and an assistant
\* message item, the content is the delimited reasoning text, a newline and
\* the assistant text, each once, provided the reasoning text is not empty;
\* when it is empty the content is the assistant text alone.
C6_DelimitedWhenNonEmpty ==
    (pc = "resp_done" /\ ReasoningItems # {} /\ AssistantItems # {}) =>
        IF TheReasoningText # <<>>
        THEN Composed = Delimited(TheReasoningText) \o TheAssistantText
        ELSE Composed = TheAssistantText

\* A result with both items and both texts, translated.
C6_Witness ==
    /\ pc = "resp_done"
    /\ ReasoningItems # {}
    /\ AssistantItems # {}
    /\ TheReasoningText # <<>>
    /\ TheAssistantText # <<>>
    /\ Composed = Delimited(TheReasoningText) \o TheAssistantText

\* C7: with no reasoning item the content is the assistant text alone; with
\* no assistant message item the assistant text is empty, so the content is
\* the delimited reasoning text or nothing; and every backend result is
\* translated, into a response whose content is a string.
C7_NoReasoningNoDelimiter ==
    /\ pc = "resp_in" => ENABLED ConvertResponse
    /\ pc = "resp_done" =>
        /\ openaiResp # Nil
        /\ openaiResp[1].Choices[1].Message.Content.kind = "string"
        /\ ReasoningItems = {} => Composed = TheAssistantText
        /\ AssistantItems = {} =>
            Composed = (IF TheReasoningText # <<>>
                        THEN Delimited(TheReasoningText) ELSE <<>>)

\* A result with an assistant text and no reasoning item, translated.
C7_Witness ==
    /\ pc = "resp_done"
    /\ ReasoningItems = {}
    /\ TheAssistantText # <<>>
    /\ Composed = TheAssistantText

(***************************************************************************)
(* Properties of the request translator (SpecReq).                         *)
(***************************************************************************)
Translated == pc \in {"req_built", "req_sent"}

\* C8: whatever model the caller names, the backend request, built and
\* serialized, carries the configured model.
C8_ConfiguredModel ==
    /\ Translated => cfReq.Model = config.Model
    /\ pc = "req_sent" =>
        /\ "model" \in reqBody.keys
        /\ reqBody.model = config.Model

\* A request naming another model, translated and serialized.
C8_Witness ==
    /\ pc = "req_sent"
    /\ openaiReq.Model = "gpt-4"
    /\ reqBody.model = config.Model

\* C9: the backend input has one entry per message, in the same order, each
\* with the role and the content of its message.
C9_MessagesPreserved ==
    Translated =>
        /\ Len(cfReq.Input) = Len(openaiReq.Messages)
        /\ \A k \in DOMAIN openaiReq.Messages :
            /\ cfReq.Input[k].role = openaiReq.Messages[k].Role
            /\ cfReq.Input[k].content = openaiReq.Messages[k].Content

\* Two different messages, one with structured content, translated.
C9_Witness ==
    /\ Translated
    /\ Len(openaiReq.Messages) = 2
    /\ openaiReq.Messages[1].Content.kind = "struct"
    /\ openaiReq.Messages[2].Content.kind = "string"
    /\ Len(cfReq.Input) = 2

\* C10: temperature and top_p each appear in the serialized backend request
\* exactly when the caller supplied them, with the caller's value, an
\* explicit 0 included.
C10_OptionalSampling ==
    /\ Translated =>
        /\ cfReq.Temperature = openaiReq.Temperature
        /\ cfReq.TopP = openaiReq.TopP
    /\ pc = "req_sent" =>
        /\ "temperature" \in reqBody.keys <=> openaiReq.Temperature # Nil
        /\ "top_p" \in reqBody.keys <=> openaiReq.TopP # Nil
        /\ "temperature" \in reqBody.keys =>
            reqBody.temperature = openaiReq.Temperature
        /\ "top_p" \in reqBody.keys => reqBody.top_p = openaiReq.TopP

\* An explicit temperature of 0 and no top_p, serialized.
C10_Witness ==
    /\ pc = "req_sent"
    /\ openaiReq.Temperature = <<0>>
    /\ openaiReq.TopP = Nil
    /\ reqBody.keys = {"model", "input", "temperature"}
    /\ reqBody.temperature = <<0>>

(***************************************************************************)
(* The backend call's outcomes (Spec).                                     *)
(***************************************************************************)
DecodedSuccess ==
    /\ backendReply # Nil
    /\ backendReply[1].doErr = Nil
    /\ backendReply[1].StatusCode = 200
    /\ backendReply[1].Body.doc # Nil

\* How many of the four outcomes the call that returned falls under.
OutcomesMet ==
    Cardinality({o \in {"transport", "status", "decode", "success"} :
        \/ o = "transport" /\ TransportFailed /\ err # Nil /\ cfResp = Nil
                           /\ rawCFJSON = ""
        \/ o = "status" /\ NonSuccessStatus /\ err # Nil /\ cfResp = Nil
                        /\ rawCFJSON = backendReply[1].Body.text
        \/ o = "decode" /\ UndecodableBody /\ err # Nil /\ cfResp = Nil
                        /\ rawCFJSON = backendReply[1].Body.text
        \/ o = "success" /\ DecodedSuccess /\ err = Nil /\ cfResp # Nil
                         /\ cfResp[1].ID = backendReply[1].Body.doc[1].ID
                         /\ rawCFJSON = backendReply[1].Body.text})

GotResponseBody == backendReply # Nil /\ backendReply[1].doErr = Nil

RawBodyLogged ==
    \E k \in DOMAIN logs :
        /\ logs[k].kind = "cloudflare"
        /\ logs[k].text = backendReply[1].Body.text

\* C12: when the request has finished and its backend call yielded a response
\* body, the log holds that body verbatim, whether the call succeeded, the
\* status was not 200 or the body did not decode.
C12_RawBodyLogged ==
    (pc = "done" /\ GotResponseBody) => RawBodyLogged

(***************************************************************************)
(* Method checks (Spec).                                                   *)
(***************************************************************************)
MethodMismatch ==
    \/ req.path = "/v1/chat/completions" /\ req.method # "POST"
    \/ req.path = "/v1/models" /\ req.method # "GET"

\* C13 as stated: every finished request whose method does not match its
\* endpoint was answered 405, with no backend call.
C13_MismatchGets405 ==
    (pc = "done" /\ MethodMismatch) =>
        /\ status = 405
        /\ backendCalls = 0

\* C13: every finished request whose method does not match its endpoint and
\* whose authorization is accepted was answered 405 "Method not allowed"; one
\* whose authorization is refused was answered 401; for neither was the
\* backend called.
C13_AuthorizedMismatchGets405 ==
    (pc = "done" /\ MethodMismatch) =>
        /\ backendCalls = 0
        /\ backendReply = Nil
        /\ status = IF BadAuthorization THEN 401 ELSE 405
        /\ ~BadAuthorization =>
              written = <<[kind |-> "text", text |-> "Method not allowed\n"]>>

\* A POST to the model listing with the right key, answered 405.
C13_Witness ==
    /\ pc = "done"
    /\ req.path = "/v1/models"
    /\ req.method = "POST"
    /\ config.ClientKey # ""
    /\ ~BadAuthorization
    /\ status = 405

(***************************************************************************)
(* The shape of the unified response (SpecResp).                           *)
(***************************************************************************)
\* C14: whatever the backend result holds (no output item, one, several),
\* the translated response has exactly one choice, with index 0, role
\* "assistant", finish reason "stop" and a string as content, so that reading
\* the first choice's content as a string succeeds.
C14_SingleChoice ==
    /\ pc = "resp_done" => openaiResp # Nil
    /\ openaiResp # Nil =>
        /\ Len(openaiResp[1].Choices) = 1
        /\ openaiResp[1].Choices[1].Index = 0
        /\ openaiResp[1].Choices[1].Message.Role = "assistant"
        /\ openaiResp[1].Choices[1].FinishReason = "stop"
        /\ openaiResp[1].Choices[1].Message.Content.kind = "string"

\* A result with no output item at all, translated into one choice with the
\* empty string as content.
C14_Witness ==
    /\ pc = "resp_done"
    /\ Output = <<>>
    /\ Len(openaiResp[1].Choices) = 1
    /\ openaiResp[1].Choices[1].Message.Content = StringContent(<<>>)

(***************************************************************************)
(* Flushing in the content phase (Spec).                                   *)
(***************************************************************************)
\* C15: in the content phase nothing written waits in the buffer when the
\* next frame is due; a consumer that stays connected has received, after the
\* k-th content frame was flushed, the start frame and exactly the first k
\* characters of the final text, one per frame and in order; a consumer that
\* left has received what had been written until then, in the order written.
C15_FlushedPerCharacter ==
    (Streaming /\ pc = "stream") =>
        LET chars == FinalChars
        IN  /\ buf = <<>>
            /\ connOpen =>
                /\ Len(wire) = i
                /\ IsStartFrame(wire[1])
                /\ \A k \in 1..(i - 1) :
                    /\ IsContentFrame(wire[k + 1])
                    /\ RunesFrom(wire[k + 1].event.delta.content[1], 1)
                         = <<chars[k]>>
            /\ ~connOpen => wire = SubSeq(written, 1, closedAt)

\* Two characters flushed to a connected consumer, the loop not yet over.
C15_Witness ==
    /\ Streaming
    /\ pc = "stream"
    /\ connOpen
    /\ i = 3
    /\ Len(wire) = 3
    /\ IsContentFrame(wire[3])
    /\ buf = <<>>

(***************************************************************************)
(* Client disconnects (Spec).                                              *)
(***************************************************************************)
\* The peer left before the backend call returned: nothing had been written.
LeftDuringCall == ~connOpen /\ closedAt = 0 /\ backendReply # Nil

\* The part of C16 about a disconnect during the backend call: the call came
\* back with a failure, and neither a frame nor a completion was written.
AbandonedCall ==
    LeftDuringCall =>
        /\ err # Nil
        /\ cfResp = Nil
        /\ \A k \in DOMAIN written : written[k].kind = "text"

\* C16: when the client leaves while the backend call is in flight the call
\* returns a failure and no frame and no completion is emitted afterwards;
\* when it leaves later, during the streaming emission, nothing more is
\* emitted from then on.
C16_AbandonedOnDisconnect ==
    /\ AbandonedCall
    /\ (Streaming /\ ~connOpen) => Len(written) = closedAt

(***************************************************************************)
(* The fields of the frames (Spec).                                        *)
(***************************************************************************)
\* The backend's document behind the response being streamed.
BackendResult == backendReply[1].Body.doc[1]

\* C17: every JSON frame of a streaming emission carries the response's id
\* and model, the object "chat.completion.chunk" and index 0; the start
\* frame's delta holds the role "assistant" and nothing else, a content
\* frame's delta its one character and nothing else, the end frame's delta
\* nothing; the finish reason is null in the start and content frames and
\* "stop" in the end frame only; the end frame alone carries a usage block,
\* with the token counts of the backend result.  The end frame is the last
\* one before the sentinel.
C17_FrameFields ==
    Streaming =>
        LET end == IF pc = "done" THEN Len(written) - 1 ELSE Len(written) + 1
        IN  \A k \in DOMAIN written :
                written[k].kind = "data" =>
                    LET e == written[k].event
                    IN  /\ e.id = BackendResult.ID
                        /\ e.model = BackendResult.Model
                        /\ e.object = "chat.completion.chunk"
                        /\ e.index = 0
                        /\ k <= end
                        /\ k = 1 =>
                            /\ e.delta = [role |-> <<"assistant">>, content |-> Nil]
                            /\ e.finish_reason = Nil
                            /\ e.usage = Nil
                        /\ (1 < k /\ k < end) =>
                            /\ e.delta.role = Nil
                            /\ e.delta.content # Nil
                            /\ Len(RunesFrom(e.delta.content[1], 1)) = 1
                            /\ e.finish_reason = Nil
                            /\ e.usage = Nil
                        /\ k = end =>
                            /\ e.delta = [role |-> Nil, content |-> Nil]
                            /\ e.finish_reason = <<"stop">>
                            /\ e.usage =
                                <<[prompt_tokens |->
                                       BackendResult.Usage.PromptTokens,
                                   completion_tokens |->
                                       BackendResult.Usage.CompletionTokens,
                                   total_tokens |->
                                       BackendResult.Usage.TotalTokens]>>

\* A completed emission with a content frame and the usage block at its end.
C17_Witness ==
    /\ Streaming
    /\ pc = "done"
    /\ Len(FinalChars) >= 1
    /\ written[2].event.delta.content # Nil
    /\ written[Len(FinalChars) + 2].event.usage =
          <<[prompt_tokens |-> 3, completion_tokens |-> 5, total_tokens |-> 8]>>

(***************************************************************************)
(* When the backend is called and how the result is presented (Spec).      *)
(***************************************************************************)
ChatPost == req.path = "/v1/chat/completions" /\ req.method = "POST"

\* C18: the backend is called at most once for a request, and only for an
\* authorized POST to the chat endpoint whose body parsed (an empty or
\* malformed body is answered 400 with no call); frames and completions are
\* written only after the call succeeded; a successful request with the
\* stream flag unset is answered with exactly one JSON completion and no
\* frame, one with the flag set with the frame sequence and no JSON
\* completion.
C18_CallAndPresentation ==
    /\ backendCalls <= 1
    /\ pc \in {"call", "stream"} => backendCalls = 1
    /\ backendReply # Nil => backendCalls = 1
    /\ backendCalls = 1 =>
        /\ ChatPost
        /\ ~BadAuthorization
        /\ req.body.kind = "json"
    /\ (pc = "done" /\ ChatPost /\ ~BadAuthorization /\ req.body.kind # "json") =>
        /\ status = 400
        /\ backendCalls = 0
        /\ written = <<[kind |-> "text", text |-> "Invalid JSON\n"]>>
    /\ \A k \in DOMAIN written :
        written[k].kind \in {"data", "done", "completion"} =>
            /\ DecodedSuccess
            /\ err = Nil
    /\ (pc = "done" /\ DecodedSuccess) =>
        /\ status = 200
        /\ IF req.body.value.Stream
           THEN /\ contentType = "text/event-stream"
                /\ Len(written) >= 3
                /\ \A k \in DOMAIN written : written[k].kind \in {"data", "done"}
           ELSE /\ contentType = "application/json"
                /\ Len(written) = 1
                /\ written[1].kind = "completion"

\* A successful request without the stream flag: one call, one completion.
C18_Witness ==
    /\ pc = "done"
    /\ DecodedSuccess
    /\ ~req.body.value.Stream
    /\ backendCalls = 1
    /\ Len(written) = 1
    /\ written[1].kind = "completion"

(***************************************************************************)
(* Two requests served concurrently (SpecConc).  net/http runs each        *)
(* request's handler in a goroutine of its own; the variables hold the     *)
(* handler that takes the next step and parked the one that waits, and a   *)
(* switch between them may come between any two steps.                     *)
(***************************************************************************)
\* The state of the handler that is running.
Context ==
    [req |-> req, pc |-> pc, connOpen |-> connOpen, closedAt |-> closedAt,
     openaiReq |-> openaiReq, cfReq |-> cfReq, reqBody |-> reqBody,
     backendCalls |-> backendCalls, backendReply |-> backendReply,
     cfResp |-> cfResp, rawCFJSON |-> rawCFJSON, err |-> err,
     openaiResp |-> openaiResp, runes |-> runes, i |-> i, status |-> status,
     contentType |-> contentType, written |-> written, buf |-> buf,
     wire |-> wire, logs |-> logs]

\* A handler that has not taken a step yet.
FreshContext(rq) ==
    [req |-> rq, pc |-> "recv", connOpen |-> TRUE, closedAt |-> -1,
     openaiReq |-> ZeroOpenAIRequest, cfReq |-> ZeroCloudflareRequest,
     reqBody |-> ZeroReqBody, backendCalls |-> 0, backendReply |-> Nil,
     cfResp |-> Nil, rawCFJSON |-> "", err |-> Nil, openaiResp |-> Nil,
     runes |-> <<>>, i |-> 0, status |-> 0, contentType |-> "",
     written |-> <<>>, buf |-> <<>>, wire |-> <<>>, logs |-> <<>>]

ConcRequests ==
    {[path |-> "/v1/chat/completions", method |-> "POST",
      auth |-> "Bearer secret",
      body |-> [kind |-> "json",
                value |-> [Model |-> "gpt-4", Messages |-> <<UserHi>>,
                           Stream |-> s, Temperature |-> Nil, TopP |-> Nil]]] :
        s \in BOOLEAN}
    \cup {[path |-> "/v1/chat/completions", method |-> "POST",
           auth |-> "Bearer wrong",
           body |-> [kind |-> "json", value |-> ZeroOpenAIRequest]],
          [path |-> "/v1/models", method |-> "GET", auth |-> "Bearer secret",
           body |-> [kind |-> "empty", value |-> ZeroOpenAIRequest]]}

\* The backend fails, or answers "a", or answers "b".
ConcReplies ==
    {TransportFailure}
    \cup {[doErr |-> Nil, StatusCode |-> 200,
           Body |-> [text |-> "response.json",
                     doc |-> <<BackendDoc(<<MessageItem(<<c>>)>>)>>,
                     jsonErr |-> ""]] : c \in {97, 98}}

\* The configuration main leaves behind before it starts serving.
StartupConfig == [ClientKey |-> "secret", Model |-> DefaultModel]

InitConc ==
    /\ config = StartupConfig
    /\ cur = 1
    /\ \E r \in ConcRequests : parked = [k \in {2} |-> FreshContext(r)]
    /\ req \in ConcRequests
    /\ pc = "recv"
    /\ connOpen = TRUE
    /\ closedAt = -1
    /\ IdleLocals
    /\ IdleWriter

ConcBackendReturn == BackendReturn(ConcReplies)

\* The scheduler lets the other handler run.
Switch ==
    \E k \in DOMAIN parked :
        /\ cur' = k
        /\ parked' = [j \in {cur} |-> Context]
        /\ req' = parked[k].req
        /\ pc' = parked[k].pc
        /\ connOpen' = parked[k].connOpen
        /\ closedAt' = parked[k].closedAt
        /\ openaiReq' = parked[k].openaiReq
        /\ cfReq' = parked[k].cfReq
        /\ reqBody' = parked[k].reqBody
        /\ backendCalls' = parked[k].backendCalls
        /\ backendReply' = parked[k].backendReply
        /\ cfResp' = parked[k].cfResp
        /\ rawCFJSON' = parked[k].rawCFJSON
        /\ err' = parked[k].err
        /\ openaiResp' = parked[k].openaiResp
        /\ runes' = parked[k].runes
        /\ i' = parked[k].i
        /\ status' = parked[k].status
        /\ contentType' = parked[k].contentType
        /\ written' = parked[k].written
        /\ buf' = parked[k].buf
        /\ wire' = parked[k].wire
        /\ logs' = parked[k].logs
        /\ UNCHANGED config

NextConc ==
    \/ ChatEnter
    \/ ConcBackendReturn
    \/ ChatContentFrame
    \/ ChatEndFrames
    \/ handleModels
    \/ PeerClose
    \/ Switch

SpecConc == InitConc /\ [][NextConc]_vars

(***************************************************************************)
(* Isolation of concurrent requests (SpecConc).                            *)
(***************************************************************************)
\* What the handlers answer to a request served alone, from the request and
\* the reply its backend call got (lines 120-246 and 248-271 as a function).
AnsweredAlone(rq, reply) ==
    IF ~authorizeClient(rq)
    THEN [status |-> 401, written |-> <<TextChunk("Unauthorized")>>]
    ELSE IF rq.path = "/v1/models"
    THEN IF rq.method # "GET"
         THEN [status |-> 405, written |-> <<TextChunk("Method not allowed")>>]
         ELSE [status |-> 200, written |-> <<ModelsChunk>>]
    ELSE IF rq.method # "POST"
    THEN [status |-> 405, written |-> <<TextChunk("Method not allowed")>>]
    ELSE IF jsonUnmarshalRequest(rq.body).err
    THEN [status |-> 400, written |-> <<TextChunk("Invalid JSON")>>]
    ELSE LET res == callCloudflareAPI(reply[1])
         IN  IF res.err # Nil
             THEN [status |-> 500,
                   written |-> <<TextChunk("Cloudflare API error: " \o res.err[1])>>]
             ELSE LET resp == convertToOpenAIResponse(res.resp[1])
                      rs == ToRunes(fullContent(resp))
                  IN  IF jsonUnmarshalRequest(rq.body).value.Stream
                      THEN [status |-> 200,
                            written |->
                                <<startEvent(resp)>>
                                \o [k \in 1..Len(rs) |-> contentEvent(resp, rs[k])]
                                \o <<endEvent(resp), DoneChunk>>]
                      ELSE [status |-> 200, written |-> <<CompletionChunk(resp)>>]

\* Every request in progress, the running one included.
InProgress == [k \in DOMAIN parked \cup {cur} |->
                  IF k = cur THEN Context ELSE parked[k]]

\* Every request that has been answered was answered as if served alone.
Independent ==
    \A k \in DOMAIN InProgress :
        InProgress[k].pc = "done" =>
            [status |-> InProgress[k].status, written |-> InProgress[k].written]
                = AnsweredAlone(InProgress[k].req, InProgress[k].backendReply)

\* C19: in every interleaving of the steps of two requests the server
\* configuration stays what it was at startup, and every answered request
\* was answered with what its own input and its own backend reply give when
\* it is served alone, in whichever order the two complete.
C19_Isolation ==
    /\ config = StartupConfig
    /\ Independent

\* The second request has been answered with a completion while the first,
\* whose backend answered something else, is still streaming.
C19_Witness ==
    /\ cur = 2
    /\ pc = "done"
    /\ status = 200
    /\ req.path = "/v1/chat/completions"
    /\ 1 \in DOMAIN parked
    /\ parked[1].pc = "stream"
    /\ parked[1].backendReply # backendReply

(***************************************************************************)
(* Which entries the response translator reads (SpecResp).                 *)
(***************************************************************************)
\* C20: the composed content is made of the text of the last
\* "reasoning_text" entry of the "reasoning" items and the text of the last
\* "output_text" entry of the assistant "message" items, in output order, and
\* of nothing else: entries of other types, items of other types or roles,
\* earlier qualifying entries and qualifying items without a matching entry
\* change nothing, and texts are never concatenated.
C20_LastQualifyingEntry ==
    pc = "resp_done" =>
        LET r == TheReasoningText
            a == TheAssistantText
        IN  /\ extractTexts(cfResp[1]) = [reasoningText |-> r, assistantMessage |-> a]
            /\ Composed = (IF r # <<>> THEN Delimited(r) ELSE <<>>) \o a
            /\ \A j \in DOMAIN Output :
                (j \notin ReasoningItems \cup AssistantItems) =>
                    \A k \in DOMAIN Output[j].Content :
                        Output[j].Content[k].Text # <<>> =>
                            \A n \in DOMAIN Composed :
                                <<Composed[n]>> # Output[j].Content[k].Text

\* Two reasoning items with a text each: the content is the second one's,
\* delimited, and the first one's is gone.
C20_Witness ==
    /\ pc = "resp_done"
    /\ Len(Output) = 2
    /\ ReasoningItems = {1, 2}
    /\ \A j \in {1, 2} :
        /\ Len(Output[j].Content) >= 1
        /\ Output[j].Content[1].Type = "reasoning_text"
        /\ Output[j].Content[1].Text # <<>>
    /\ Output[1].Content[1].Text # Output[2].Content[1].Text
    /\ Composed = Delimited(Output[2].Content[1].Text)

=============================================================================
